---- MODULE Spec2Model ----
(***************************************************************************)
(* Model of app/src/main/cpp/llama_jni.cpp: the JNI entry points           *)
(* llamaCreate, llamaFree, llamaKvCacheClear, llamaGenerate and            *)
(* llamaGenerateStream, with the llama.cpp backend (decode, sample,        *)
(* tokenize, vocabulary lookups) and the JNI environment as fallible       *)
(* external operations whose results are drawn nondeterministically.       *)
(***************************************************************************)
EXTENDS Integers, Sequences, FiniteSets, TLC

(* ------------------------------ constants ------------------------------ *)

\* const int n_batch = 256 (llamaGenerate line 196, llamaGenerateStream line 332)
n_batch == 256

\* Bounds of the model.
MaxTokens == 3        \* largest maxTokens of a call
DeepTokens == 5       \* maxTokens of the calls of the narrow-vocabulary runs
MaxFeed == 1          \* largest maxTokens of a call with a long prompt
MaxFullChunks == 2    \* long prompts have up to MaxFullChunks*capacity+1 tokens
MaxCalls == 2         \* generation calls per run in the session-reuse runs
MaxCtx == 2           \* llamaCreate calls per run in the lifecycle runs
MaxFrees == 2         \* llamaFree calls per run in the lifecycle runs
MaxCap == 3           \* largest chunk capacity in the varied-capacity runs
MaxLen == 5           \* longest prompt in the varied-capacity runs
MaxStrFail == 1       \* NewStringUTF failures per call

Threads == {1, 2}

(* ------------------------------ vocabulary ----------------------------- *)
\* Token ids of the (external) vocabulary the model is run with.
TokEos == 0        \* llama_vocab_eos(vocab)
TokEot == 1        \* llama_vocab_eot(vocab)
TokImEnd == 2      \* the single token of "<|im_end|>"
TokGemmaEot == 3   \* the single token of "<end_of_turn>"
TokEog == 4        \* flagged by llama_vocab_is_eog, none of the above
TokSpace == 5      \* text "▁"
TokWord == 6       \* text "▁b"
TokNl == 7         \* text "\n"
TokNoText == 8     \* llama_vocab_get_text returns nullptr
TokUser == 9       \* text "User:", an ordinary text token

Vocab == {TokEos, TokEot, TokImEnd, TokGemmaEot, TokEog, TokSpace, TokWord,
          TokNl, TokNoText}

\* The three UTF-8 bytes of the word-boundary marker U+2581.
Marker == <<"m1", "m2", "m3">>

NoText == <<"null">>

\* The bytes of "User:", the literal text that opens a user turn.
UserMarker == <<"U", "s", "e", "r", ":">>

\* llama_vocab_get_text: the raw fragment of a token, NoText for nullptr.
llama_vocab_get_text(tok) ==
    CASE tok = TokSpace -> Marker
      [] tok = TokWord -> Marker \o <<"b">>
      [] tok = TokNl -> <<"nl">>
      [] tok = TokNoText -> NoText
      [] tok = TokUser -> UserMarker
      [] OTHER -> <<"<", "s", ">">>

llama_vocab_is_eog(tok) == tok \in {TokEos, TokEot, TokImEnd, TokGemmaEot, TokEog}

\* std::isspace on one byte.
isspace(c) == c \in {"sp", "nl"}

(* ------------------------------ helpers -------------------------------- *)

Min(a, b) == IF a < b THEN a ELSE b

\* should_stop_generation without the llama_vocab_is_eog fallback of line 62.
should_stop_no_fallback(tok, tok_eos, tok_im_end, tok_eot) ==
    IF tok = tok_eos THEN TRUE
    ELSE IF tok_eot # -1 /\ tok = tok_eot THEN TRUE
    ELSE IF tok_im_end # -1 /\ tok = tok_im_end THEN TRUE
    ELSE FALSE

\* should_stop_generation, lines 54-64.
should_stop_generation(tok, tok_eos, tok_im_end, tok_eot) ==
    IF tok = tok_eos THEN TRUE
    ELSE IF tok_eot # -1 /\ tok = tok_eot THEN TRUE
    ELSE IF tok_im_end # -1 /\ tok = tok_im_end THEN TRUE
    ELSE IF llama_vocab_is_eog(tok) THEN TRUE
    ELSE FALSE

\* The break condition of the decode loops, lines 272 and 423.
StopCheck(c, tok) ==
    \/ should_stop_generation(tok, c.tok_eos, c.tok_im_end, c.tok_eot)
    \/ (c.tok_gemma_eot # -1 /\ tok = c.tok_gemma_eot)

\* Fragment normalisation, lines 278-280 and 428-430.
Normalize(t) ==
    IF t = Marker THEN <<"sp">>
    ELSE IF Len(t) >= 3 /\ SubSeq(t, 1, 3) = Marker
         THEN <<"sp">> \o SubSeq(t, 4, Len(t))
         ELSE t

\* Trailing-whitespace strip, line 302.
RECURSIVE RStrip(_)
RStrip(s) ==
    IF s # <<>> /\ isspace(s[Len(s)]) THEN RStrip(SubSeq(s, 1, Len(s) - 1)) ELSE s

\* The token ids of a prompt of n tokens (the external tokenizer's output).
PromptTokens(n) == [k \in 1..n |-> 10 + ((k - 1) % 7)]

\* tokenize_with_specials, lines 34-51: got < 0 clears the vector.
tokenize_with_specials(n, gotOk) == IF gotOk THEN PromptTokens(n) ELSE <<>>

\* kv_clear_compat doing nothing (neither branch of the #if clears).
kv_clear_noop(cache) == cache

\* kv_clear_compat, lines 67-73: the cache holds no cell afterwards.
kv_clear_compat(cache) == {}

\* ChunkLen without the std::min: the rest of the prompt in one batch.
ChunkLenUnclamped(cap, ntok, cur) == ntok - cur

\* const int32_t nb = std::min(n_batch, ntok - cur), lines 201 and 340.
ChunkLen(cap, ntok, cur) == Min(cap, ntok - cur)

\* const bool set_logits = (pos == ntok - 1), lines 204 and 343.
SetLogits(pos, ntok) == pos = ntok - 1

\* PrefillBatch asking for logits on the last element of every chunk.
PrefillBatchLogitsPerChunk(tokens, cur, nb, ntok) ==
    [k \in 1..nb |-> [token |-> tokens[cur + k],
                      pos |-> cur + (k - 1),
                      logits |-> (k = nb)]]

\* PrefillBatch numbering positions from the start of the chunk (pos = i).
PrefillBatchChunkRelative(tokens, cur, nb, ntok) ==
    [k \in 1..nb |-> [token |-> tokens[cur + k],
                      pos |-> k - 1,
                      logits |-> SetLogits(cur + (k - 1), ntok)]]

\* The batch filled by the inner prefill loop, lines 202-211 and 341-350.
PrefillBatch(tokens, cur, nb, ntok) ==
    [k \in 1..nb |-> [token |-> tokens[cur + k],
                      pos |-> cur + (k - 1),
                      logits |-> SetLogits(cur + (k - 1), ntok)]]

\* FeedBatch with the position incremented before use (++n_cur).
FeedBatchPreIncrement(tok, n_cur) == <<[token |-> tok, pos |-> n_cur + 1, logits |-> TRUE]>>

\* The single-token batch of the feedback step, lines 283-289 and 439-445.
FeedBatch(tok, n_cur) == <<[token |-> tok, pos |-> n_cur, logits |-> TRUE]>>

\* The temperatures of the two profiles, in tenths.
temp_first == 2       \* llama_sampler_init_temp(0.2f), lines 264 and 406
temp_steady == 7      \* llama_sampler_init_temp(0.7f), lines 228 and 372

\* The sampler chains, lines 224-229, 260-265, 369-373, 403-407.
SamplerChain(fn, temp) ==
    IF fn = "generate"
    THEN [stages |-> <<"penalties", "top_k", "top_p", "temp", "dist">>,
          top_k |-> 30, temp |-> temp]
    ELSE [stages |-> <<"top_k", "top_p", "temp", "dist">>,
          top_k |-> 40, temp |-> temp]

NoChain == [stages |-> <<>>, top_k |-> 0, temp |-> 0]

(* ------------------------------- state --------------------------------- *)

VARIABLES
    cfg,        \* the run's inputs: chunk capacity, prompt lengths, budgets, ...
    ctxSt,      \* llama_context per address: "none", "live", "freed"
    modelSt,    \* llama_model owned by the context at that address
    ctxFrees,   \* llama_free calls per context
    modelFrees, \* llama_model_free calls per model
    handles,    \* the jlong values llamaCreate returned to the caller
    nCreate,    \* llamaCreate calls so far
    nFree,      \* llamaFree calls so far
    lastCreate, \* what the last llamaCreate reported
    kv,         \* per context: the generations owning cells of its KV cache
    nCalls,     \* generation calls so far
    uaf,        \* the entry points that dereferenced a released context
    crashed,    \* the process died
    th          \* per caller thread: the locals of its generation call

heapVars == <<ctxSt, modelSt, ctxFrees, modelFrees, handles, nCreate, nFree, lastCreate>>
vars == <<cfg, ctxSt, modelSt, ctxFrees, modelFrees, handles, nCreate, nFree,
          lastCreate, kv, nCalls, uaf, crashed, th>>

Addrs == 1..(MaxCtx + 1)

NoResult == [kind |-> "none", text |-> <<>>]

IdleCall ==
    [pc |-> "idle", fn |-> "none", h |-> 0, gen |-> 0,
     tokens |-> <<>>, ntok |-> 0, maxTokens |-> 0,
     cur |-> 0, n_cur |-> 0, i |-> 0, first |-> TRUE, next |-> -1,
     t |-> <<>>, output |-> <<>>,
     sampler |-> NoChain,
     tok_eos |-> -1, tok_eot |-> -1, tok_im_end |-> -1, tok_gemma_eot |-> -1,
     result |-> NoResult,
     \* resources of the call: how often each was created and freed
     batchAllocs |-> 0, batchFrees |-> 0,
     samplerAllocs |-> 0, samplerFrees |-> 0,
     firstAllocs |-> 0, firstFrees |-> 0,
     \* history of the call
     ev |-> <<>>,          \* backend and consumer calls, in order
     fed |-> <<>>,         \* every element submitted to llama_decode, in order
     chunks |-> <<>>,      \* kind and size of every batch submitted
     sampled |-> <<>>,     \* every token llama_sampler_sample returned
     chains |-> <<>>,      \* the chain each of them was drawn with
     appended |-> <<>>,    \* every fragment appended to output
     delivered |-> <<>>,   \* every text passed to onToken
     strFails |-> 0,       \* NewStringUTF failures
     stopK |-> 0,          \* the onToken call that first signalled stop or faulted
     stopEv |-> 0,         \* Len(ev) right after that call
     stopped |-> "no",     \* why the decode loop ended
     maxIdx |-> -1,        \* highest batch index written
     kvAtEnter |-> {},     \* owners of the cache cells at entry, before the clear
     kvAtDecode |-> {}]    \* owners of the cache cells seen by the call's decodes

\* The <<prompt length, maxTokens>> pairs a run draws its calls from.
Inputs == cfg.lens \X cfg.budgets

InitHeap ==
    /\ ctxSt = [a \in Addrs |-> "none"]
    /\ modelSt = [a \in Addrs |-> "none"]
    /\ ctxFrees = [a \in Addrs |-> 0]
    /\ modelFrees = [a \in Addrs |-> 0]
    /\ handles = {}
    /\ nCreate = 0
    /\ nFree = 0
    /\ lastCreate = "none"
    /\ kv = [a \in Addrs |-> {}]
    /\ nCalls = 0
    /\ uaf = {}
    /\ crashed = FALSE
    /\ th = [t \in cfg.threads |-> IdleCall]

\* Lengths around the multiples of the capacity.
LongLens(cap) == {cap - 1} \cup UNION {{k * cap, k * cap + 1} : k \in 1..MaxFullChunks}

\* One session, one call, short prompts, every token of the vocabulary.
Init ==
    /\ cfg = [cap |-> n_batch, lens |-> {0, 1}, budgets |-> -1..MaxTokens,
              vocab |-> Vocab, maxCalls |-> 1, maxCtx |-> 1, maxFrees |-> 1,
              threads |-> {1}]
    /\ InitHeap

\* One session, one call, prompts around and beyond the compiled capacity.
InitLong ==
    /\ cfg = [cap |-> n_batch, lens |-> LongLens(n_batch), budgets |-> 0..MaxFeed,
              vocab |-> Vocab, maxCalls |-> 1, maxCtx |-> 1, maxFrees |-> 1,
              threads |-> {1}]
    /\ InitHeap

\* One session, one call of DeepTokens tokens, a model that only ever produces
\* newlines, words and the end-of-sequence token.
InitDeep ==
    /\ cfg = [cap |-> n_batch, lens |-> {1}, budgets |-> {DeepTokens},
              vocab |-> {TokNl, TokWord, TokEos},
              maxCalls |-> 1, maxCtx |-> 1, maxFrees |-> 1, threads |-> {1}]
    /\ InitHeap

\* The prefill loop run with every chunk capacity from 1 to MaxCap.
InitCap ==
    /\ \E cap \in 1..MaxCap :
         cfg = [cap |-> cap, lens |-> 0..MaxLen, budgets |-> {0, 1},
                vocab |-> {TokWord, TokEos},
                maxCalls |-> 1, maxCtx |-> 1, maxFrees |-> 1, threads |-> {1}]
    /\ InitHeap

\* One session reused by several calls.
InitReuse ==
    /\ cfg = [cap |-> n_batch, lens |-> {0, 1}, budgets |-> {0, 1},
              vocab |-> {TokWord, TokEos, TokNoText},
              maxCalls |-> MaxCalls, maxCtx |-> 1, maxFrees |-> 1, threads |-> {1}]
    /\ InitHeap

\* Several sessions created and freed, one call.
InitLife ==
    /\ cfg = [cap |-> n_batch, lens |-> {1}, budgets |-> {1},
              vocab |-> {TokWord, TokEos},
              maxCalls |-> 1, maxCtx |-> MaxCtx, maxFrees |-> MaxFrees,
              threads |-> {1}]
    /\ InitHeap

\* One session, one call, a model that produces plain text: words, newlines,
\* the text of a user turn's opening, and the end-of-sequence token.
InitChat ==
    /\ cfg = [cap |-> n_batch, lens |-> {1}, budgets |-> 0..MaxTokens,
              vocab |-> {TokWord, TokNl, TokUser, TokEos},
              maxCalls |-> 1, maxCtx |-> 1, maxFrees |-> 1, threads |-> {1}]
    /\ InitHeap

\* One session, two Java threads, each free to call into it while the other
\* is inside a generation call.
InitConc ==
    /\ cfg = [cap |-> n_batch, lens |-> {1}, budgets |-> {1},
              vocab |-> {TokWord, TokEos},
              maxCalls |-> MaxCalls, maxCtx |-> 1, maxFrees |-> 1, threads |-> Threads]
    /\ InitHeap

\* One session reused by several calls of several tokens each.
InitProfile ==
    /\ cfg = [cap |-> n_batch, lens |-> {1}, budgets |-> {MaxTokens},
              vocab |-> {TokWord, TokEos},
              maxCalls |-> MaxCalls, maxCtx |-> 1, maxFrees |-> 1, threads |-> {1}]
    /\ InitHeap

(* ------------------------------ actions -------------------------------- *)

Live(h) == h # 0 /\ ctxSt[h] = "live"
Dangling(h) == h # 0 /\ ctxSt[h] = "freed"

\* The failure path of llamaCreate leaving the loaded model allocated.
llama_model_free_skipped(st) == st

\* llama_model_free, lines 113 and 134: the state of a model after it.
llama_model_free(st) == "freed"

\* llamaCreate, lines 78-126.
Create(outcome) ==
    /\ ~crashed
    /\ \A t \in cfg.threads : th[t].pc = "idle"
    /\ nCreate < cfg.maxCtx
    /\ nCreate' = nCreate + 1
    /\ LET a == nCreate + 1 IN
       CASE outcome = "nopath" ->
              /\ lastCreate' = "IOException: Failed to get model path"
              /\ UNCHANGED <<ctxSt, modelSt, modelFrees, handles>>
         [] outcome = "noload" ->
              /\ lastCreate' = "IOException: Failed to load model"
              /\ UNCHANGED <<ctxSt, modelSt, modelFrees, handles>>
         [] outcome = "noctx" ->
              /\ modelSt' = [modelSt EXCEPT ![a] = llama_model_free("live")]
              /\ modelFrees' = [modelFrees EXCEPT ![a] = @ + 1]
              /\ lastCreate' = "IOException: Failed to init context"
              /\ UNCHANGED <<ctxSt, handles>>
         [] OTHER ->
              /\ modelSt' = [modelSt EXCEPT ![a] = "live"]
              /\ ctxSt' = [ctxSt EXCEPT ![a] = "live"]
              /\ handles' = handles \cup {a}
              /\ lastCreate' = "ok"
              /\ UNCHANGED modelFrees
    /\ UNCHANGED <<cfg, ctxFrees, nFree, kv, nCalls, uaf, crashed, th>>

\* llamaFree, lines 128-137. The only guard is ctx != nullptr: on a released
\* context llama_get_model reads released memory and llama_free releases it
\* again; the process dies or goes on with whatever the read returned.
Free(h, die, staleModel) ==
    /\ ~crashed
    /\ \A t \in cfg.threads : th[t].pc = "idle"
    /\ nFree < cfg.maxFrees
    /\ h \in handles \cup {0}
    /\ nFree' = nFree + 1
    /\ IF h = 0
       THEN /\ ~die /\ ~staleModel
            /\ UNCHANGED <<ctxSt, modelSt, ctxFrees, modelFrees, uaf, crashed>>
       ELSE IF Live(h)
       THEN /\ ~die /\ ~staleModel
            /\ ctxSt' = [ctxSt EXCEPT ![h] = "freed"]
            /\ ctxFrees' = [ctxFrees EXCEPT ![h] = @ + 1]
            /\ modelSt' = [modelSt EXCEPT ![h] = llama_model_free(@)]
            /\ modelFrees' = [modelFrees EXCEPT ![h] = @ + 1]
            /\ UNCHANGED <<uaf, crashed>>
       ELSE /\ uaf' = uaf \cup {"free"}
            /\ crashed' = die
            /\ IF die
               THEN /\ ~staleModel
                    /\ UNCHANGED <<ctxFrees, modelFrees>>
               ELSE /\ ctxFrees' = [ctxFrees EXCEPT ![h] = @ + 1]
                    /\ modelFrees' = [modelFrees EXCEPT ![h] = IF staleModel THEN @ + 1 ELSE @]
            /\ UNCHANGED <<ctxSt, modelSt>>
    /\ UNCHANGED <<cfg, handles, nCreate, lastCreate, kv, nCalls, th>>

\* llamaKvCacheClear, lines 139-146.
KvCacheClear(h, die) ==
    /\ ~crashed
    /\ \A t \in cfg.threads : th[t].pc = "idle"
    /\ h \in handles \cup {0}
    /\ IF h = 0
       THEN ~die /\ UNCHANGED <<kv, uaf, crashed>>
       ELSE IF Live(h)
       THEN ~die /\ kv' = [kv EXCEPT ![h] = kv_clear_compat(@)] /\ UNCHANGED <<uaf, crashed>>
       ELSE uaf' = uaf \cup {"clear"} /\ crashed' = die /\ UNCHANGED kv
    /\ UNCHANGED <<cfg, heapVars, nCalls, th>>

Returned(c, kind, text) ==
    [c EXCEPT !.pc = "ret", !.result = [kind |-> kind, text |-> text]]

\* What the environment hands the entry of a generation call: a null callback
\* object, a failing GetStringUTFChars, a null model or vocabulary, a failing
\* tokenizer; "die" is the process dying in a call on a released context.
EnterOutcomes == {"ok", "nocallback", "noprompt", "nomodel", "novocab", "tokfail", "die"}

\* Entry of llamaGenerate (lines 151-197) and of llamaGenerateStream (lines
\* 309-333): handle check, cache clear, prompt and vocabulary lookups,
\* tokenization, batch allocation.
Enter(t, fn, h, n, m, o) ==
    /\ ~crashed
    /\ t \in cfg.threads
    /\ th[t].pc = "idle"
    /\ nCalls < cfg.maxCalls
    /\ h \in handles \cup {0}
    /\ <<n, m>> \in Inputs
    /\ o = "nocallback" => fn = "stream"
    /\ nCalls' = nCalls + 1
    /\ LET c0 == [IdleCall EXCEPT !.fn = fn, !.h = h, !.gen = nCalls + 1,
                                  !.maxTokens = m]
           Fault(c) == IF fn = "generate"
                       THEN Returned(c, "fault", <<"IllegalStateException">>)
                       ELSE Returned(c, "void", <<>>)
           Empty(c) == IF fn = "generate"
                       THEN Returned([c EXCEPT !.stopped = "tokfail"], "text", <<>>)
                       ELSE Returned([c EXCEPT !.stopped = "tokfail"], "void", <<>>)
       IN
       IF h = 0 \/ o = "nocallback"
       THEN \* lines 153-157 and 312
            /\ o \in {"ok", "nocallback"}
            /\ th' = [th EXCEPT ![t] = Fault(c0)]
            /\ UNCHANGED <<kv, uaf, crashed>>
       ELSE IF Dangling(h)
       THEN \* kv_clear_compat on a released context
            /\ o \in {"ok", "die"}
            /\ uaf' = uaf \cup {fn}
            /\ crashed' = (o = "die")
            /\ th' = [th EXCEPT ![t] =
                        Returned([c0 EXCEPT !.ev = <<"clear">>], "undefined", <<>>)]
            /\ UNCHANGED kv
       ELSE /\ o # "die"
            /\ kv' = [kv EXCEPT ![h] = kv_clear_compat(@)]
            /\ UNCHANGED <<uaf, crashed>>
            /\ LET c1 == [c0 EXCEPT !.ev = <<"clear">>, !.kvAtEnter = kv[h]]
                   tokens == tokenize_with_specials(n, o # "tokfail")
               IN
               IF o \in {"noprompt", "nomodel", "novocab"}
               THEN th' = [th EXCEPT ![t] = Fault(c1)]
               ELSE IF tokens = <<>>
               THEN th' = [th EXCEPT ![t] = Empty(c1)]
               ELSE th' = [th EXCEPT ![t] =
                             [c1 EXCEPT !.pc = "prefill", !.tokens = tokens,
                                        !.ntok = Len(tokens), !.cur = 0,
                                        !.batchAllocs = 1]]
    /\ UNCHANGED <<cfg, heapVars>>

\* An exit path that leaves the batch buffer allocated.
llama_batch_free_skipped(frees) == frees

\* llama_batch_free (lines 215, 298, 354, 365, 454) and llama_sampler_free
\* (lines 267, 297, 409, 453), counted per call.
llama_batch_free(frees) == frees + 1
llama_sampler_free(frees) == frees + 1

\* PrefillFailResult throwing instead of returning "".
PrefillFailFault(fn) ==
    IF fn = "generate" THEN [kind |-> "fault", text |-> <<"IllegalStateException">>]
                       ELSE [kind |-> "void", text |-> <<>>]

\* What is returned when a prefill chunk fails, lines 213-217 and 352-356.
PrefillFailResult(fn) ==
    IF fn = "generate" THEN [kind |-> "text", text |-> <<>>]
                       ELSE [kind |-> "void", text |-> <<>>]

\* One iteration of the prefill loop, lines 199-219 and 338-358.
PrefillStep(t, rc) ==
    /\ ~crashed
    /\ t \in cfg.threads
    /\ th[t].pc = "prefill"
    /\ LET c == th[t]
           nb == ChunkLen(cfg.cap, c.ntok, c.cur)
           b == PrefillBatch(c.tokens, c.cur, nb, c.ntok)
           c1 == [c EXCEPT !.ev = Append(@, "decode"),
                           !.fed = @ \o b,
                           !.chunks = Append(@, [kind |-> "prefill", len |-> nb]),
                           !.maxIdx = IF nb - 1 > @ THEN nb - 1 ELSE @,
                           !.kvAtDecode = @ \cup kv[c.h]]
       IN
       /\ c.cur < c.ntok
       /\ IF rc = 0
          THEN /\ kv' = [kv EXCEPT ![c.h] = @ \cup {c.gen}]
               /\ th' = [th EXCEPT ![t] =
                           [c1 EXCEPT !.cur = c.cur + nb,
                                      !.pc = IF c.cur + nb < c.ntok THEN "prefill" ELSE "setup"]]
          ELSE /\ UNCHANGED kv
               /\ th' = [th EXCEPT ![t] =
                           [c1 EXCEPT !.batchFrees = llama_batch_free(@), !.pc = "ret",
                                      !.stopped = "prefillfail",
                                      !.result = PrefillFailResult(c.fn)]]
    /\ UNCHANGED <<cfg, heapVars, nCalls, uaf, crashed>>

\* Between the prefill loop and the decode loop: the onToken lookup of the
\* streaming call (lines 363-365), the steady-state sampler chain (lines
\* 223-229, 368-373), the stop tokens (lines 232-249, 376-394) and the loop
\* variables (lines 252-255, 396-399).
SetupDecode(t, found) ==
    /\ ~crashed
    /\ t \in cfg.threads
    /\ th[t].pc = "setup"
    /\ LET c == th[t] IN
       /\ c.fn = "generate" => found
       /\ IF ~found
          THEN th' = [th EXCEPT ![t] =
                        Returned([c EXCEPT !.batchFrees = llama_batch_free(@), !.stopped = "nomethod"],
                                 "void", <<>>)]
          ELSE th' = [th EXCEPT ![t] =
                        [c EXCEPT !.pc = "sample",
                                  !.sampler = SamplerChain(c.fn, temp_steady),
                                  !.samplerAllocs = @ + 1,
                                  !.tok_eos = TokEos, !.tok_eot = TokEot,
                                  !.tok_im_end = TokImEnd,
                                  !.tok_gemma_eot = TokGemmaEot,
                                  !.output = <<>>, !.n_cur = c.ntok,
                                  !.first = TRUE, !.i = 0]]
    /\ UNCHANGED <<cfg, heapVars, kv, nCalls, uaf, crashed>>

\* What the consumer side of one loop iteration does: "none" in llamaGenerate;
\* in llamaGenerateStream NewStringUTF fails ("nostr"), or onToken runs and
\* returns wanting more, returns wanting the stream to stop, or throws.
CbOutcomes == {"none", "nostr", "continue", "stop", "fault"}

\* The decode loop going round once more than the budget allows.
LoopGuardInclusive(i, maxTokens) == i <= maxTokens

\* The condition of the decode loop, lines 257 and 400.
LoopGuard(i, maxTokens) == i < maxTokens

\* Every token drawn with the steady-state chain.
ChainForSteadyOnly(c) == c.sampler

\* The chain one token is drawn with, lines 259-271 and 402-413.
ChainFor(c) == IF c.first THEN SamplerChain(c.fn, temp_first) ELSE c.sampler

\* The text appended to the output of llamaGenerate, line 281.
AppendOutput(output, t) == output \o t

\* First half of a decode-loop iteration, lines 257-281 and 400-437: sample,
\* stop check, fragment lookup, normalisation, append or emit.
SampleStep(t, tok, cb) ==
    /\ ~crashed
    /\ t \in cfg.threads
    /\ th[t].pc = "sample"
    /\ LoopGuard(th[t].i, th[t].maxTokens)
    /\ tok \in cfg.vocab
    /\ LET c == th[t]
           c1 == [c EXCEPT !.next = tok,
                           !.first = FALSE,
                           !.firstAllocs = IF c.first THEN @ + 1 ELSE @,
                           !.firstFrees = IF c.first THEN llama_sampler_free(@) ELSE @,
                           !.sampled = Append(@, tok),
                           !.chains = Append(@, ChainFor(c)),
                           !.ev = Append(@, "sample")]
           piece == llama_vocab_get_text(tok)
           frag == Normalize(piece)
       IN
       IF StopCheck(c, tok)
       THEN /\ cb = "none"
            /\ th' = [th EXCEPT ![t] = [c1 EXCEPT !.pc = "exit", !.stopped = "stop"]]
       ELSE IF piece = NoText
       THEN /\ cb = "none"
            /\ th' = [th EXCEPT ![t] = [c1 EXCEPT !.pc = "exit", !.stopped = "nopiece"]]
       ELSE IF c.fn = "generate"
       THEN /\ cb = "none"
            /\ th' = [th EXCEPT ![t] =
                        [c1 EXCEPT !.pc = "feed", !.t = frag,
                                   !.output = AppendOutput(@, frag),
                                   !.appended = Append(@, frag)]]
       ELSE IF cb = "nostr"
       THEN \* pieceJ == nullptr: the callback is skipped, line 433
            /\ c.strFails < MaxStrFail
            /\ th' = [th EXCEPT ![t] =
                        [c1 EXCEPT !.pc = "feed", !.t = frag, !.strFails = @ + 1]]
       ELSE /\ cb \in {"continue", "stop", "fault"}
            /\ cb = "stop" => c.stopK = 0
            /\ LET c2 == [c1 EXCEPT !.t = frag,
                                    !.delivered = Append(@, frag),
                                    !.ev = Append(@, "onToken")]
                   c3 == IF cb # "continue" /\ c.stopK = 0
                         THEN [c2 EXCEPT !.stopK = Len(c2.delivered),
                                         !.stopEv = Len(c2.ev)]
                         ELSE c2
               IN
               \* only a pending exception ends the loop, line 436
               th' = [th EXCEPT ![t] =
                        IF cb = "fault"
                        THEN [c3 EXCEPT !.pc = "exit", !.stopped = "fault"]
                        ELSE [c3 EXCEPT !.pc = "feed"]]
    /\ UNCHANGED <<cfg, heapVars, kv, nCalls, uaf, crashed>>

\* Second half of a decode-loop iteration, lines 283-294 and 439-450: the
\* sampled token is fed back as a single-element batch.
FeedStep(t, rc) ==
    /\ ~crashed
    /\ t \in cfg.threads
    /\ th[t].pc = "feed"
    /\ LET c == th[t]
           b == FeedBatch(c.next, c.n_cur)
           c1 == [c EXCEPT !.n_cur = @ + 1,
                           !.ev = Append(@, "decode"),
                           !.fed = @ \o b,
                           !.chunks = Append(@, [kind |-> "feed", len |-> Len(b)]),
                           !.maxIdx = IF Len(b) - 1 > @ THEN Len(b) - 1 ELSE @,
                           !.kvAtDecode = @ \cup kv[c.h]]
       IN
       IF rc = 0
       THEN /\ kv' = [kv EXCEPT ![c.h] = @ \cup {c.gen}]
            /\ th' = [th EXCEPT ![t] = [c1 EXCEPT !.pc = "sample", !.i = @ + 1]]
       ELSE /\ UNCHANGED kv
            /\ th' = [th EXCEPT ![t] = [c1 EXCEPT !.pc = "exit", !.stopped = "decodefail"]]
    /\ UNCHANGED <<cfg, heapVars, nCalls, uaf, crashed>>

\* The text llamaGenerate returns, lines 302-303.
FinalText(output) == RStrip(output)

\* After the decode loop, lines 297-303 and 453-456.
Finish(t) ==
    /\ ~crashed
    /\ t \in cfg.threads
    /\ \/ th[t].pc = "exit"
       \/ th[t].pc = "sample" /\ ~LoopGuard(th[t].i, th[t].maxTokens)
    /\ LET c == th[t]
           c1 == [c EXCEPT !.samplerFrees = llama_sampler_free(@),
                           !.batchFrees = llama_batch_free(@),
                           !.stopped = IF c.pc = "sample" THEN "budget" ELSE @]
       IN
       th' = [th EXCEPT ![t] =
                IF c.fn = "generate"
                THEN Returned(c1, "text", FinalText(c.output))
                ELSE Returned(c1, "void", <<>>)]
    /\ UNCHANGED <<cfg, heapVars, kv, nCalls, uaf, crashed>>

\* The call returns to its Java caller: the frame and its locals are gone.
Return(t) ==
    /\ ~crashed
    /\ t \in cfg.threads
    /\ th[t].pc = "ret"
    /\ th' = [th EXCEPT ![t] = IdleCall]
    /\ UNCHANGED <<cfg, heapVars, kv, nCalls, uaf, crashed>>

Next ==
    \/ \E o \in {"nopath", "noload", "noctx", "ok"} : Create(o)
    \/ \E h \in handles \cup {0}, die \in BOOLEAN, sm \in BOOLEAN : Free(h, die, sm)
    \/ \E h \in handles \cup {0}, die \in BOOLEAN : KvCacheClear(h, die)
    \/ \E t \in cfg.threads, fn \in {"generate", "stream"}, h \in handles \cup {0},
          p \in Inputs, o \in EnterOutcomes : Enter(t, fn, h, p[1], p[2], o)
    \/ \E t \in cfg.threads, rc \in {0, 1} : PrefillStep(t, rc)
    \/ \E t \in cfg.threads, found \in BOOLEAN : SetupDecode(t, found)
    \/ \E t \in cfg.threads, tok \in cfg.vocab, cb \in CbOutcomes : SampleStep(t, tok, cb)
    \/ \E t \in cfg.threads, rc \in {0, 1} : FeedStep(t, rc)
    \/ \E t \in cfg.threads : Finish(t)
    \/ \E t \in cfg.threads : Return(t)

Spec == Init /\ [][Next]_vars
SpecDeep == InitDeep /\ [][Next]_vars
SpecLong == InitLong /\ [][Next]_vars
SpecCap == InitCap /\ [][Next]_vars
SpecReuse == InitReuse /\ [][Next]_vars
SpecLife == InitLife /\ [][Next]_vars
SpecChat == InitChat /\ [][Next]_vars
SpecConc == InitConc /\ [][Next]_vars
SpecProfile == InitProfile /\ [][Next]_vars

\* A step of the native thread inside a generation call. The thread runs the
\* function's statements one after the other and every backend and consumer
\* call it makes returns, so a call that can step does step.
CallStep ==
    \E t \in cfg.threads :
        \/ \E rc \in {0, 1} : PrefillStep(t, rc)
        \/ \E found \in BOOLEAN : SetupDecode(t, found)
        \/ \E tok \in cfg.vocab, cb \in CbOutcomes : SampleStep(t, tok, cb)
        \/ \E rc \in {0, 1} : FeedStep(t, rc)
        \/ Finish(t)

SpecFair == Init /\ [][Next]_vars /\ WF_vars(CallStep)

(* ------------------------------- claims -------------------------------- *)

Calls == {th[t] : t \in cfg.threads}

RECURSIVE PrefillFed(_)
\* The number of elements submitted by the prefill chunks of a call.
PrefillFed(chunks) ==
    IF chunks = <<>> THEN 0
    ELSE (IF chunks[1].kind = "prefill" THEN chunks[1].len ELSE 0) + PrefillFed(Tail(chunks))

FeedChunks(c) == {j \in 1..Len(c.chunks) : c.chunks[j].kind = "feed"}

C2_LogitsOnlyOnLast ==
    \A c \in Calls :
        LET P == PrefillFed(c.chunks) IN
        \A k \in 1..Len(c.fed) :
            IF k <= P THEN c.fed[k].logits <=> (c.fed[k].pos = c.ntok - 1)
                      ELSE c.fed[k].logits

\* A prompt of 2*256+1 tokens went through prefill in three chunks.
C2_Witness ==
    \E c \in Calls :
        /\ c.pc = "setup"
        /\ c.ntok = 2 * n_batch + 1
        /\ Len(c.chunks) = 3
        /\ c.fed[c.ntok].logits

\* C3: every chunk submitted holds between 1 and 256 elements and no batch
\* index >= 256 is written.
C3_ChunkWithinCapacity ==
    \A c \in Calls :
        /\ \A j \in 1..Len(c.chunks) : c.chunks[j].len >= 1 /\ c.chunks[j].len <= n_batch
        /\ c.maxIdx < n_batch

\* A prompt of 257 tokens: a full chunk of 256 and a chunk of 1.
C3_Witness ==
    \E c \in Calls :
        /\ c.ntok = n_batch + 1
        /\ Len(c.chunks) >= 2
        /\ c.chunks[1].len = n_batch
        /\ c.chunks[2] = [kind |-> "prefill", len |-> 1]

\* C4: for every chunk capacity, once prefill has gone through without a
\* failed submission, the flattened elements submitted are those of the one
\* chunk an unbounded capacity gives: the whole sequence in its order.
C4_ChunkingTransparent ==
    \A c \in Calls :
        c.pc \in {"setup", "sample", "feed", "exit"} =>
            /\ PrefillFed(c.chunks) = c.ntok
            /\ SubSeq(c.fed, 1, c.ntok) = PrefillBatch(c.tokens, 0, c.ntok, c.ntok)

\* Capacity 2, a prompt of 5 tokens: three chunks.
C4_Witness ==
    \E c \in Calls :
        /\ cfg.cap = 2
        /\ c.ntok = 5
        /\ c.pc = "setup"
        /\ Len(c.chunks) = 3

RECURSIVE Flatten(_)
\* The concatenation of a sequence of texts.
Flatten(ss) == IF ss = <<>> THEN <<>> ELSE ss[1] \o Flatten(Tail(ss))

RECURSIVE NlCount(_)
\* The number of newline characters of a text.
NlCount(s) == IF s = <<>> THEN 0 ELSE (IF s[1] = "nl" THEN 1 ELSE 0) + NlCount(Tail(s))

\* The decoded and normalized fragment of a token.
Frag(tok) == Normalize(llama_vocab_get_text(tok))

\* A token the Stop Detector is to fire on: a resolved terminal token or one
\* the vocabulary flags end-of-generation.
Terminal(tok) == tok \in {TokEos, TokEot, TokImEnd, TokGemmaEot} \/ llama_vocab_is_eog(tok)

\* C5: in generateStream, once onToken has signalled stop or faulted on its
\* k-th call, exactly k increments have been delivered and no onToken, decode
\* or sample call follows.
C5_StreamCancellation ==
    \A c \in Calls :
        (c.fn = "stream" /\ c.stopK # 0) =>
            /\ Len(c.delivered) = c.stopK
            /\ \A j \in (c.stopEv + 1)..Len(c.ev) : c.ev[j] \notin {"onToken", "decode", "sample"}

\* C6: generate on a live handle whose tokenization fails, or one of whose
\* prefill chunks fails, returns the empty text as a normal result; no token
\* was sampled and no feedback decode made.
C6_EmptyTextOnEarlyFailure ==
    \A c \in Calls :
        (c.fn = "generate" /\ c.stopped \in {"tokfail", "prefillfail"}) =>
            /\ c.pc = "ret"
            /\ c.result = [kind |-> "text", text |-> <<>>]
            /\ c.sampled = <<>>
            /\ FeedChunks(c) = {}
            /\ \A j \in 1..Len(c.ev) : c.ev[j] # "sample"

\* generate returned after its first prefill chunk failed.
C6_Witness ==
    \E c \in Calls :
        /\ c.fn = "generate"
        /\ c.pc = "ret"
        /\ c.stopped = "prefillfail"
        /\ Len(c.chunks) = 1
        /\ c.result.kind = "text"

\* C7: when the token sampled at step k is terminal, it is the last one
\* sampled, the loop has ended, exactly the k-1 earlier tokens were fed back,
\* nothing of the k-th was appended or emitted, and generate returns the
\* concatenation of the first k-1 fragments with trailing whitespace stripped.
C7_StopDiscardsToken ==
    \A c \in Calls :
        \A k \in 1..Len(c.sampled) :
            Terminal(c.sampled[k]) =>
                /\ k = Len(c.sampled)
                /\ c.pc \in {"exit", "ret"}
                /\ c.stopped = "stop"
                /\ Cardinality(FeedChunks(c)) = k - 1
                /\ Len(c.fed) = c.ntok + (k - 1)
                /\ \A q \in 1..(k - 1) : c.fed[c.ntok + q].token = c.sampled[q]
                /\ c.fn = "generate" =>
                      /\ c.output = Flatten([q \in 1..(k - 1) |-> Frag(c.sampled[q])])
                      /\ c.pc = "ret" =>
                            c.result = [kind |-> "text",
                                        text |-> RStrip(Flatten([q \in 1..(k - 1) |->
                                                                   Frag(c.sampled[q])]))]
                /\ c.fn = "stream" => Len(c.delivered) + c.strFails = k - 1

\* generate with maxTokens = 3 sampled "▁b", "\n" and then the end-of-sequence
\* token, and returned " b".
C7_Witness ==
    \E c \in Calls :
        /\ c.fn = "generate"
        /\ c.pc = "ret"
        /\ c.maxTokens = 3
        /\ c.sampled = <<TokWord, TokNl, TokEos>>
        /\ c.result.text = <<"sp", "b">>

\* C8: a token is appended or emitted only while the text accumulated before
\* it holds at most 3 newline characters.
C8_NewlineFallbackStop ==
    \A c \in Calls :
        LET frags == IF c.fn = "generate" THEN c.appended ELSE c.delivered IN
        \A j \in 1..Len(frags) : NlCount(Flatten(SubSeq(frags, 1, j - 1))) <= 3

\* C9: every generation call that submits a batch has cleared the cache
\* first, and none of its batches meets cache cells of another generation.
C9_CacheClearedBeforeDecode ==
    \A c \in Calls :
        c.chunks # <<>> =>
            /\ c.ev[1] = "clear"
            /\ c.kvAtDecode \subseteq {c.gen}

\* A later call on a handle whose cache still held the cells of an earlier
\* generation has submitted a batch.
C9_Witness ==
    \E c \in Calls :
        /\ c.gen >= 2
        /\ c.kvAtEnter # {}
        /\ c.chunks # <<>>
        /\ c.fed[1].pos = 0

\* C10: no free dereferences a released context and no context or model is
\* released more than once.
C10_FreeIdempotent ==
    /\ "free" \notin uaf
    /\ \A a \in Addrs : ctxFrees[a] <= 1 /\ modelFrees[a] <= 1

\* C11: every generate or generateStream call entered with a null or released
\* handle ends in a fault raised to the caller and makes no backend call, and
\* no generation call and no resetCache touches a released context.
C11_InvalidHandleRejected ==
    /\ \A c \in Calls :
          (c.pc # "idle" /\ (c.h = 0 \/ Dangling(c.h))) =>
              /\ c.pc = "ret"
              /\ c.result.kind = "fault"
              /\ c.ev = <<>>
    /\ uaf \cap {"generate", "stream", "clear"} = {}

\* The budget of a call: max(maxTokens, 0).
Budget(c) == IF c.maxTokens > 0 THEN c.maxTokens ELSE 0

\* The call is inside its decode loop.
InLoop(c) == c.pc \in {"sample", "feed"} /\ c.stopped = "no"

\* At most max(maxTokens, 0) tokens sampled, appended, emitted and fed back;
\* the loop goes on only while none of its exits has happened, and has ended
\* only by one that has.
C12_WithinBudget ==
    \A c \in Calls :
        LET k == Len(c.sampled) IN
        /\ k <= Budget(c)
        /\ Len(c.appended) <= Budget(c)
        /\ Len(c.delivered) <= Budget(c)
        /\ Cardinality(FeedChunks(c)) <= Budget(c)
        /\ InLoop(c) =>
              /\ \A q \in 1..k : ~Terminal(c.sampled[q])
                                 /\ llama_vocab_get_text(c.sampled[q]) # NoText
              /\ c.pc = "sample" => Cardinality(FeedChunks(c)) = c.i /\ k = c.i
              /\ c.pc = "feed" => c.i < c.maxTokens /\ k = c.i + 1
        /\ c.samplerAllocs = 1 /\ c.pc \in {"exit", "ret"} =>
              c.stopped \in {"stop", "budget", "nopiece", "decodefail", "fault"}
        /\ c.stopped = "stop" => Terminal(c.sampled[k])
        /\ c.stopped = "budget" => c.i = Budget(c) /\ k = Budget(c)
        /\ c.stopped = "nopiece" => llama_vocab_get_text(c.sampled[k]) = NoText
        /\ c.stopped = "decodefail" =>
              /\ c.ev[Len(c.ev)] = "decode"
              /\ Cardinality(FeedChunks(c)) = c.i + 1
        /\ c.stopped = "fault" =>
              /\ c.fn = "stream"
              /\ c.ev[Len(c.ev)] = "onToken"

\* C12: every generation call that has got past its entry returns, and at any
\* time it has sampled, appended or emitted, and fed back at most
\* max(maxTokens, 0) tokens; its decode loop ends exactly when the stop check
\* fires, the budget is used up, the fragment lookup fails, a feedback decode
\* fails or the consumer faults.
C12_TerminatesWithinBudget ==
    /\ []C12_WithinBudget
    /\ (th[1].pc \in {"prefill", "setup", "sample", "feed", "exit"}) ~> (th[1].pc = "ret")

\* A call with maxTokens = 3 used its whole budget: three tokens sampled and
\* fed back, and the loop left by its condition.
C12_Witness ==
    \E c \in Calls :
        /\ c.pc = "ret"
        /\ c.maxTokens = MaxTokens
        /\ c.stopped = "budget"
        /\ Len(c.sampled) = MaxTokens
        /\ Cardinality(FeedChunks(c)) = MaxTokens

\* The fragments of the tokens a call has sampled so far.
Frags(c) == [q \in 1..Len(c.sampled) |-> Frag(c.sampled[q])]

\* C13: when the feedback decode of the k-th sampled token fails after k-1
\* feedback steps that went through, the failing decode is the call's last
\* backend or consumer call, the call ends without a fault, generate returns
\* the k fragments appended so far, the k-th included, without trailing
\* whitespace, and generateStream has delivered those k fragments.
C13_PartialResult ==
    \A c \in Calls :
        c.stopped = "decodefail" =>
            LET k == Len(c.sampled) IN
            /\ c.pc \in {"exit", "ret"}
            /\ c.i = k - 1
            /\ Cardinality(FeedChunks(c)) = k
            /\ c.ev[Len(c.ev)] = "decode"
            /\ c.fn = "generate" =>
                  /\ c.appended = Frags(c)
                  /\ c.pc = "ret" =>
                        c.result = [kind |-> "text", text |-> RStrip(Flatten(Frags(c)))]
            /\ c.fn = "stream" =>
                  /\ c.delivered = Frags(c)
                  /\ c.pc = "ret" => c.result.kind = "void"

\* The text s holds the text m somewhere.
Contains(s, m) == \E j \in 1..(Len(s) - Len(m) + 1) : SubSeq(s, j, j + Len(m) - 1) = m

\* C14: the text generate returns holds no user-role marker and does not end
\* in a whitespace character.
C14_ReturnedTextPostProcessed ==
    \A c \in Calls :
        (c.fn = "generate" /\ c.pc = "ret" /\ c.result.kind = "text") =>
            /\ ~Contains(c.result.text, UserMarker)
            /\ c.result.text # <<>> => ~isspace(c.result.text[Len(c.result.text)])

\* The addresses the create calls made so far were given.
Created == 1..nCreate

\* C15: a create that failed reported an IOException, returned no handle and
\* left neither a model nor a context allocated (a model it had loaded was
\* released once); a create that succeeded allocated one model and one
\* context, both owned by the handle it returned until that handle is freed.
C15_CreateAllOrNothing ==
    /\ \A a \in Created :
          IF a \in handles
          THEN <<ctxSt[a], modelSt[a]>> \in {<<"live", "live">>, <<"freed", "freed">>}
          ELSE /\ ctxSt[a] = "none"
               /\ modelSt[a] \in {"none", "freed"}
               /\ modelFrees[a] = (IF modelSt[a] = "freed" THEN 1 ELSE 0)
               /\ ctxFrees[a] = 0
    /\ \A a \in Addrs \ Created : ctxSt[a] = "none" /\ modelSt[a] = "none"
    /\ nCreate > 0 =>
          /\ (lastCreate = "ok") <=> (nCreate \in handles)
          /\ lastCreate = "ok" /\ nFree = 0 => Live(nCreate) /\ modelSt[nCreate] = "live"
          /\ lastCreate # "ok" =>
                lastCreate \in {"IOException: Failed to get model path",
                                "IOException: Failed to load model",
                                "IOException: Failed to init context"}

\* A create whose context allocation failed after the model was loaded, then
\* a create that succeeded.
C15_Witness ==
    /\ nCreate = 2
    /\ 1 \notin handles
    /\ modelFrees[1] = 1
    /\ lastCreate = "ok"
    /\ Live(2)

\* The call is between its entry checks and its return.
InFlight(c) == c.pc \in {"prefill", "setup", "sample", "feed", "exit"}

\* C16: no two generation calls are in flight on one session at the same
\* time, and no batch a call submits meets cache cells another generation
\* wrote after the call's own cache clear.
C16_OneGenerationInFlight ==
    /\ \A t1, t2 \in cfg.threads :
          (t1 # t2 /\ th[t1].h # 0 /\ th[t1].h = th[t2].h) =>
              ~(InFlight(th[t1]) /\ InFlight(th[t2]))
    /\ \A c \in Calls : c.kvAtDecode \subseteq {c.gen}

\* The five stages in the order the pipeline prescribes.
StageOrder == <<"penalties", "top_k", "top_p", "temp", "dist">>

\* C17: the steady-state chain a call has built and every chain a token was
\* drawn with, in generate and in generateStream, consist of the stages
\* repetition penalty, top-k, top-p, temperature, draw, in this order.
C17_SamplerStagesInOrder ==
    \A c \in Calls :
        /\ c.samplerAllocs > 0 => c.sampler.stages = StageOrder
        /\ \A j \in 1..Len(c.chains) : c.chains[j].stages = StageOrder

\* C18: in every generation call the first token, and only the first, is
\* drawn with the first-token temperature 0.2 and every later token with the
\* steady-state temperature 0.7, whatever the calls before it did; 0.2 is
\* lower than 0.7.
C18_FirstTokenProfile ==
    /\ temp_first < temp_steady
    /\ \A c \in Calls :
          /\ Len(c.chains) = Len(c.sampled)
          /\ \A j \in 1..Len(c.chains) :
                c.chains[j].temp = (IF j = 1 THEN temp_first ELSE temp_steady)
          /\ c.firstAllocs = (IF c.sampled = <<>> THEN 0 ELSE 1)

\* The second call on a session drew its first token cold and its later
\* tokens with the steady-state chain.
C18_Witness ==
    \E c \in Calls :
        /\ c.gen = 2
        /\ Len(c.chains) = MaxTokens
        /\ c.chains[1].temp = temp_first
        /\ c.chains[Len(c.chains)].temp = temp_steady

\* C19: in generateStream the q-th token fed back is the token whose
\* fragment was the q-th increment delivered, and the onToken call that
\* delivered it is the call right before that feedback decode.
C19_EmitBeforeFeed ==
    \A c \in Calls :
        c.fn = "stream" =>
            /\ Cardinality(FeedChunks(c)) <= Len(c.delivered)
            /\ \A q \in 1..(Len(c.fed) - c.ntok) :
                  /\ q <= Len(c.delivered)
                  /\ c.delivered[q] = Frag(c.fed[c.ntok + q].token)
            /\ \A j \in 1..Len(c.ev) :
                  (c.ev[j] = "decode" /\ j > 1 /\ c.ev[j - 1] # "onToken") =>
                      \A q \in 1..j : c.ev[q] \notin {"sample", "onToken"}

\* The ways a call ends after its batch buffer was allocated, and those among
\* them taken after its steady-state chain was built.
ExitsAfterBatch == {"prefillfail", "nomethod", "stop", "nopiece", "fault", "decodefail", "budget"}
ExitsAfterSampler == {"stop", "nopiece", "fault", "decodefail", "budget"}

\* C20: a call that ended after allocating its batch buffer has freed it
\* exactly once, and has freed exactly once the steady-state chain and the
\* first-token chain if it built them; while the call can still submit a
\* batch or draw a token the buffer and the steady-state chain are not freed,
\* and no token after the first is drawn with the freed first-token chain.
C20_ResourcesPaired ==
    \A c \in Calls :
        /\ c.batchFrees <= c.batchAllocs /\ c.batchAllocs <= 1
        /\ c.samplerFrees <= c.samplerAllocs /\ c.samplerAllocs <= 1
        /\ c.firstFrees = c.firstAllocs /\ c.firstAllocs <= 1
        /\ c.pc = "ret" =>
              /\ c.batchFrees = c.batchAllocs
              /\ c.samplerFrees = c.samplerAllocs
        /\ (c.pc = "ret" /\ c.stopped \in ExitsAfterBatch) =>
              c.batchAllocs = 1 /\ c.batchFrees = 1
        /\ (c.pc = "ret" /\ c.stopped \in ExitsAfterSampler) =>
              c.samplerAllocs = 1 /\ c.samplerFrees = 1
        /\ c.pc \in {"prefill", "setup", "sample", "feed", "exit"} =>
              c.batchAllocs = 1 /\ c.batchFrees = 0
        /\ c.pc \in {"sample", "feed", "exit"} =>
              c.samplerAllocs = 1 /\ c.samplerFrees = 0
        /\ \A j \in 2..Len(c.chains) : c.chains[j] = c.sampler

\* generateStream ended by a fault of the consumer on its second call: the
\* buffer and both chains were created and freed once.
C20_Witness ==
    \E c \in Calls :
        /\ c.fn = "stream"
        /\ c.pc = "ret"
        /\ c.stopped = "fault"
        /\ Len(c.delivered) = 2
        /\ c.batchFrees = 1
        /\ c.samplerFrees = 1
        /\ c.firstFrees = 1

====
